---- MODULE Spec2Model ----
(***************************************************************************)
(* A model of contador-api (src/src/server.js): the visit counter with     *)
(* per-route, per-day and per-site statistics, duration summaries, history *)
(* pruning, range queries and write-through persistence.                   *)
(*                                                                         *)
(* Representation.                                                         *)
(*  - A JavaScript string is a sequence of one-character strings.          *)
(*  - A JavaScript number is a rational [num, den] (den > 0) or NaN.       *)
(*  - An instant is a number of model time units since the Unix epoch; one *)
(*    unit is TimeUnitMs milliseconds (TLC integers are 32 bits wide, so   *)
(*    instants cannot be kept in milliseconds). Durations stay in ms.      *)
(*  - A date key "YYYY-MM-DD" is the tuple <<Y, M, D>> of its three digit  *)
(*    groups.                                                              *)
(*  - A JavaScript object used as a map is a function on its set of keys.  *)
(***************************************************************************)
EXTENDS Integers, Sequences, FiniteSets, TLC

VARIABLES
    now,               \* the wall clock (new Date()), in time units
    pc,                \* "boot" before loadCount, "serving" after app.listen
    disk,              \* content of DATA_FILE
    visitStatsBySite,  \* the in-memory store
    pending,           \* requests suspended at `await persistCount()`
    res,               \* the response the latest step produced, if any
    hist,              \* history of the run (what was loaded, what was requested)
    arg,               \* input of the pure-function specifications
    out                \* output of the pure-function specifications

vars == <<now, pc, disk, visitStatsBySite, pending, res, hist, arg, out>>

-----------------------------------------------------------------------------
(* Bounds of the model                                                     *)

MaxLen == 4        \* longest route string of SpecSanitize
MaxSteps == 3      \* write requests accepted plus clock advances in one run
MaxInflight == 2   \* requests suspended in persistCount at once

-----------------------------------------------------------------------------
(* JavaScript strings                                                      *)

Upper == <<"A", "B", "C", "D", "E", "F", "G", "H", "I", "J", "K", "L", "M",
           "N", "O", "P", "Q", "R", "S", "T", "U", "V", "W", "X", "Y", "Z">>
Lower == <<"a", "b", "c", "d", "e", "f", "g", "h", "i", "j", "k", "l", "m",
           "n", "o", "p", "q", "r", "s", "t", "u", "v", "w", "x", "y", "z">>

\* String.prototype.toLowerCase, one character
LowerChar(c) ==
    IF \E i \in 1..Len(Upper) : Upper[i] = c
    THEN Lower[CHOOSE i \in 1..Len(Upper) : Upper[i] = c]
    ELSE c

\* String.prototype.toLowerCase
toLowerCase(s) == [i \in 1..Len(s) |-> LowerChar(s[i])]

IsSpace(c) == c = " "

\* the first index of s at or after which P fails to hold of every earlier
\* character: Len(s)+1 when every character satisfies P
FirstNot(s, P(_)) ==
    CHOOSE i \in 1..(Len(s) + 1) :
        /\ \A j \in 1..(i - 1) : P(s[j])
        /\ (i <= Len(s) => ~P(s[i]))

\* the last index of s that does not satisfy P: 0 when every character does
LastNot(s, P(_)) ==
    CHOOSE i \in 0..Len(s) :
        /\ \A j \in (i + 1)..Len(s) : P(s[j])
        /\ (i >= 1 => ~P(s[i]))

StripLeft(s, P(_)) == SubSeq(s, FirstNot(s, P), Len(s))
StripRight(s, P(_)) == SubSeq(s, 1, LastNot(s, P))

\* String.prototype.trim
trim(s) == StripRight(StripLeft(s, IsSpace), IsSpace)

IsSlash(c) == c = "/"
IsQueryOrHash(c) == c \in {"?", "#"}
NotQueryOrHash(c) == ~IsQueryOrHash(c)

\* trimmed.split(/[?#]/)[0]: the part before the first '?' or '#'
SplitFirst(s) == SubSeq(s, 1, FirstNot(s, NotQueryOrHash) - 1)

\* s.replace(/\/+/g, '/'): every run of slashes becomes one slash
RECURSIVE CollapseSlashes(_)
CollapseSlashes(s) ==
    IF Len(s) <= 1 THEN s
    ELSE IF IsSlash(s[1]) /\ IsSlash(s[2]) THEN CollapseSlashes(Tail(s))
    ELSE <<s[1]>> \o CollapseSlashes(Tail(s))

\* a value a request or a JSON document may carry where a string is expected
JsString(s) == [isString |-> TRUE, chars |-> s]
NotAString == [isString |-> FALSE, chars |-> <<>>]

\* path.replace(/^\/+/, '').replace(/\/+$/, '').replace(/\/+/g, '/')
NormalizePath(path) ==
    CollapseSlashes(StripRight(StripLeft(path, IsSlash), IsSlash))

\* sanitizeRoute from `if (!trimmed)` on
SanitizeTrimmed(trimmed) ==
    IF trimmed = <<>> THEN <<>> ELSE NormalizePath(SplitFirst(trimmed))

\* sanitizeRoute(route): '' is the empty sequence
sanitizeRoute(route) ==
    IF ~route.isString THEN <<>>
    ELSE SanitizeTrimmed(toLowerCase(trim(route.chars)))

-----------------------------------------------------------------------------
(* JavaScript numbers and JSON values                                      *)

\* a finite number num/den (den > 0), or NaN
Rat(n, d) == [nan |-> FALSE, num |-> n, den |-> d]
NaN == [nan |-> TRUE, num |-> 0, den |-> 1]

\* a / b for whole numbers a, b with b # 0
Quotient(a, b) == IF b > 0 THEN Rat(a, b) ELSE Rat(0 - a, 0 - b)

\* a scalar of a JSON document or of a request body: a whole number, a string
\* holding the digits of a whole number, some other text, or nothing at all
JNum(n) == [type |-> "number", n |-> n]
JNumStr(n) == [type |-> "numeric string", n |-> n]
JText == [type |-> "text", n |-> 0]
JUndefined == [type |-> "undefined", n |-> 0]

\* Number(value)
Number(v) ==
    IF v.type \in {"number", "numeric string"} THEN Rat(v.n, 1) ELSE NaN

\* Number(value) || 0, for the whole numbers a document carries
NumberOrZero(v) == IF Number(v).nan THEN 0 ELSE Number(v).num

\* null, where a function returns a number or null
Null == 0 - 1

\* Math.round of the positive number n/d: halves round up
RoundHalfUp(n, d) == (2 * n + d) \div (2 * d)

Min(a, b) == IF a <= b THEN a ELSE b
Max(a, b) == IF a >= b THEN a ELSE b

\* a map (a JavaScript object used as a dictionary)
EmptyMap == [k \in {} |-> 0]
Has(m, k) == k \in DOMAIN m
Put(m, k, v) == [x \in (DOMAIN m) \cup {k} |-> IF x = k THEN v ELSE m[x]]
Without(m, ks) == [x \in (DOMAIN m) \ ks |-> m[x]]
\* m[k], or d when m has no k
GetOr(m, k, d) == IF Has(m, k) THEN m[k] ELSE d

\* values.reduce((sum, value) => sum + value, 0) over the entries of m at ks
RECURSIVE SumAt(_, _)
SumAt(m, ks) ==
    IF ks = {} THEN 0
    ELSE m[CHOOSE x \in ks : TRUE] + SumAt(m, ks \ {CHOOSE x \in ks : TRUE})

SumValues(m) == SumAt(m, DOMAIN m)

\* a JSON value where an object is expected: an object with these entries,
\* or something that is no object (absent, null, a number, a string)
JObject(entries) == [isObject |-> TRUE, entries |-> entries]
NotAnObject == [isObject |-> FALSE, entries |-> EmptyMap]

-----------------------------------------------------------------------------
(* Program constants                                                       *)

TimeUnitMs == 60 * 60 * 1000           \* one model time unit, in milliseconds
LEGACY_ROUTE_NAME == <<"g", "e", "n", "e", "r", "a", "l">>
DAY_IN_MS == (24 * 60 * 60 * 1000) \div TimeUnitMs
MAX_DAILY_HISTORY_DAYS == 366
COLOMBIA_UTC_OFFSET_MS == (0 - 5 * 60 * 60 * 1000) \div TimeUnitMs
MAX_TRACKABLE_DURATION_MS == 24 * 60 * 60 * 1000

-----------------------------------------------------------------------------
(* Day-key calendar                                                        *)

\* days from 1970-01-01 to day d of month m of year y (the proleptic Gregorian
\* calendar of ECMAScript's MakeDay; a day past the month's end runs on into
\* the next month)
DayOfEra(yoe, mp, d) ==
    yoe * 365 + yoe \div 4 - yoe \div 100 + (153 * mp + 2) \div 5 + d - 1
DaysFromShifted(y1, mp, d) ==
    (y1 \div 400) * 146097 + DayOfEra(y1 % 400, mp, d) - 719468
DaysFromCivil(y, m, d) ==
    DaysFromShifted(IF m <= 2 THEN y - 1 ELSE y,
                    IF m > 2 THEN m - 3 ELSE m + 9, d)

\* the calendar date <<year, month, day>> of day number z
CivilOfMonth(y, mp, d) ==
    <<IF mp < 10 THEN y ELSE y + 1, IF mp < 10 THEN mp + 3 ELSE mp - 9, d>>
CivilOfDayOfYear(y, doy, mp) == CivilOfMonth(y, mp, doy - (153 * mp + 2) \div 5 + 1)
CivilOfYear(era, doe, yoe) ==
    CivilOfDayOfYear(yoe + era * 400,
                     doe - (365 * yoe + yoe \div 4 - yoe \div 100),
                     (5 * (doe - (365 * yoe + yoe \div 4 - yoe \div 100)) + 2) \div 153)
CivilOfEra(era, doe) ==
    CivilOfYear(era, doe,
                (doe - doe \div 1460 + doe \div 36524 - doe \div 146096) \div 365)
CivilFromDays(z) ==
    CivilOfEra((z + 719468) \div 146097, (z + 719468) % 146097)

\* a timestamp: finite with value t, or NaN
Finite(t) == [finite |-> TRUE, t |-> t]
NaNTime == [finite |-> FALSE, t |-> 0]

\* DATE_KEY_REGEX.test(dateKey): four, two and two decimal digits
MatchesDateKeyRegex(dateKey) ==
    /\ dateKey[1] \in 0..9999
    /\ dateKey[2] \in 0..99
    /\ dateKey[3] \in 0..99

\* Date.parse(dateKey) of a date-only ISO string: UTC midnight of that day;
\* NaN when the month is not 1..12 or the day is not 1..31
DateParse(dateKey) ==
    IF MatchesDateKeyRegex(dateKey) /\ dateKey[2] \in 1..12 /\ dateKey[3] \in 1..31
    THEN Finite(DaysFromCivil(dateKey[1], dateKey[2], 1) * DAY_IN_MS
                + (dateKey[3] - 1) * DAY_IN_MS)
    ELSE NaNTime

\* formatDateKey(date): date.toISOString().slice(0, 10)
formatDateKey(date) == CivilFromDays(date \div DAY_IN_MS)

\* a variant that reads the calendar date in UTC
GetUtcDate(referenceDate) == referenceDate

\* getColombiaDate(referenceDate)
getColombiaDate(referenceDate) == referenceDate + COLOMBIA_UTC_OFFSET_MS

\* getTodayKey(referenceDate)
getTodayKey(referenceDate) == formatDateKey(getColombiaDate(referenceDate))

\* isValidDateKey(dateKey)
isValidDateKey(dateKey) == MatchesDateKeyRegex(dateKey) /\ DateParse(dateKey).finite

\* getTimestampForDateKey(dateKey)
getTimestampForDateKey(dateKey) ==
    IF DateParse(dateKey).finite
    THEN Finite(DateParse(dateKey).t - COLOMBIA_UTC_OFFSET_MS)
    ELSE NaNTime

-----------------------------------------------------------------------------
(* Sites and range presets                                                  *)

LOSANDES == <<"l", "o", "s", "a", "n", "d", "e", "s">>
ENDOMEDICOS == <<"e", "n", "d", "o", "m", "e", "d", "i", "c", "o", "s">>
DEFAULT_SITE == LOSANDES

SITE_ALIASES ==
    (<<"l", "o", "s", "a", "n", "d", "e", "s">> :> LOSANDES)
    @@ (<<"l", "o", "s", "-", "a", "n", "d", "e", "s">> :> LOSANDES)
    @@ (<<"l", "o", "s", "_", "a", "n", "d", "e", "s">> :> LOSANDES)
    @@ (<<"a", "n", "d", "e", "s">> :> LOSANDES)
    @@ (<<"e", "n", "d", "o", "m", "e", "d", "i", "c", "o", "s">> :> ENDOMEDICOS)
    @@ (<<"e", "n", "d", "o", "-", "m", "e", "d", "i", "c", "o", "s">> :> ENDOMEDICOS)
    @@ (<<"e", "n", "d", "o", "_", "m", "e", "d", "i", "c", "o", "s">> :> ENDOMEDICOS)
    @@ (<<"e", "n", "d", "o", "m", "e-acute", "d", "i", "c", "o", "s">> :> ENDOMEDICOS)

WEEK == <<"w", "e", "e", "k">>
D30 == <<"3", "0", "d">>
YEAR == <<"y", "e", "a", "r">>

RANGE_ALIASES ==
    (<<"w", "e", "e", "k">> :> WEEK)
    @@ (<<"s", "e", "m", "a", "n", "a">> :> WEEK)
    @@ (<<"e", "s", "t", "a", "-", "s", "e", "m", "a", "n", "a">> :> WEEK)
    @@ (<<"e", "s", "t", "a", "_", "s", "e", "m", "a", "n", "a">> :> WEEK)
    @@ (<<"u", "l", "t", "i", "m", "o", "s", "-", "7", "-", "d", "i", "a", "s">> :> WEEK)
    @@ (<<"7", "d">> :> WEEK)
    @@ (<<"3", "0", "d">> :> D30)
    @@ (<<"3", "0", "-", "d", "i", "a", "s">> :> D30)
    @@ (<<"3", "0", "d", "i", "a", "s">> :> D30)
    @@ (<<"u", "l", "t", "i", "m", "o", "s", "-", "3", "0", "-", "d", "i", "a", "s">> :> D30)
    @@ (<<"u", "l", "t", "i", "m", "o", "-", "m", "e", "s">> :> D30)
    @@ (<<"u", "l", "t", "i", "m", "o", "_", "m", "e", "s">> :> D30)
    @@ (<<"y", "e", "a", "r">> :> YEAR)
    @@ (<<"a", "n", "u", "a", "l">> :> YEAR)
    @@ (<<"u", "l", "t", "i", "m", "o", "-", "a", "n", "o">> :> YEAR)
    @@ (<<"u", "l", "t", "i", "m", "o", "-", "a", "n-tilde", "o">> :> YEAR)
    @@ (<<"u", "l", "t", "i", "m", "o", "_", "a", "n", "o">> :> YEAR)
    @@ (<<"u", "l", "t", "i", "m", "o", "_", "a", "n-tilde", "o">> :> YEAR)
    @@ (<<"u", "l", "t", "i", "m", "o", "s", "-", "1", "2", "-", "m", "e", "s", "e", "s">> :> YEAR)

RANGE_PRESETS == (WEEK :> 7) @@ (D30 :> 30) @@ (YEAR :> 365)

\* createEmptyStats()
createEmptyStats ==
    [total |-> 0, routes |-> EmptyMap, daily |-> EmptyMap,
     sessionDurations |-> EmptyMap, routeDurations |-> EmptyMap]

\* the result null of resolveSiteKey and resolveRangeKey
NoKey == <<>>

\* resolveSiteKey from `if (!normalized)` on
SiteOfNormalized(normalized) ==
    IF normalized = <<>> THEN DEFAULT_SITE
    ELSE GetOr(SITE_ALIASES, normalized, NoKey)

\* resolveSiteKey(rawSite); a site that is no string is undefined
resolveSiteKey(rawSite) ==
    IF ~rawSite.isString \/ rawSite.chars = <<>> THEN DEFAULT_SITE
    ELSE SiteOfNormalized(toLowerCase(trim(rawSite.chars)))

\* getSiteStats(siteKey) for a resolved key: the store with the site's stats
\* created when they were missing
getSiteStats(store, resolved) ==
    IF Has(store, resolved) THEN store ELSE Put(store, resolved, createEmptyStats)

\* resolveRangeKey from `if (RANGE_PRESETS[normalized])` on
RangeOfNormalized(normalized) ==
    IF Has(RANGE_PRESETS, normalized) THEN normalized
    ELSE GetOr(RANGE_ALIASES, normalized, NoKey)

\* resolveRangeKey(rawRange); a range that is no string is undefined
resolveRangeKey(rawRange) ==
    IF ~rawRange.isString \/ rawRange.chars = <<>> THEN WEEK
    ELSE RangeOfNormalized(toLowerCase(rawRange.chars))

-----------------------------------------------------------------------------
(* Duration sanitizer and duration summaries                               *)

\* sanitizeDurationValue(value) for a number: Null, or whole milliseconds
sanitizeDurationValue(parsed) ==
    IF parsed.nan \/ parsed.num <= 0 THEN Null
    ELSE IF parsed.num >= MAX_TRACKABLE_DURATION_MS * parsed.den
         THEN MAX_TRACKABLE_DURATION_MS
         ELSE RoundHalfUp(parsed.num, parsed.den)

\* a ?? b
Coalesce(a, b) == IF a = Null THEN b ELSE a

\* the null a function returns instead of a summary
NullSummary == [min |-> Null, max |-> Null, count |-> 0, totalDuration |-> 0]

\* a duration summary of a JSON document: its four fields, or no object
JSummary(count, totalDuration, min, max) ==
    [isObject |-> TRUE, count |-> count, totalDuration |-> totalDuration,
     min |-> min, max |-> max]
NotASummary ==
    [isObject |-> FALSE, count |-> JUndefined, totalDuration |-> JUndefined,
     min |-> JUndefined, max |-> JUndefined]

\* normalizeDurationSummary from `const min = Math.min(...)` on: the total is
\* clamped between min * count and max * count
ClampSummary(min, max, count, totalDuration) ==
    [min |-> min, max |-> max, count |-> count,
     totalDuration |-> Min(Max(totalDuration, min * count), max * count)]

\* normalizeDurationSummary from `if (!normalizedMin || !normalizedMax)` on
SummaryOfBounds(normalizedMin, normalizedMax, count, totalDuration) ==
    IF normalizedMin \in {Null, 0} \/ normalizedMax \in {Null, 0}
    THEN NullSummary
    ELSE ClampSummary(Min(normalizedMin, normalizedMax),
                      Max(normalizedMin, normalizedMax), count, totalDuration)

\* normalizeDurationSummary from `const average = totalDuration / count` on
SummaryOfAverage(rawSummary, count, totalDuration, average) ==
    SummaryOfBounds(Coalesce(sanitizeDurationValue(Number(rawSummary.min)),
                             sanitizeDurationValue(average)),
                    Coalesce(sanitizeDurationValue(Number(rawSummary.max)),
                             sanitizeDurationValue(average)),
                    count, totalDuration)

\* normalizeDurationSummary from `if (!count || totalDuration <= 0)` on
SummaryOfCount(rawSummary, count, totalDuration) ==
    IF count = 0 \/ totalDuration <= 0 THEN NullSummary
    ELSE SummaryOfAverage(rawSummary, count, totalDuration,
                          Quotient(totalDuration, count))

\* normalizeDurationSummary(rawSummary)
normalizeDurationSummary(rawSummary) ==
    IF ~rawSummary.isObject THEN NullSummary
    ELSE SummaryOfCount(rawSummary, NumberOrZero(rawSummary.count),
                        NumberOrZero(rawSummary.totalDuration))

\* a variant that keeps the base's minimum
MergeKeepBaseMin(base, addition) ==
    IF base = NullSummary THEN addition
    ELSE IF addition = NullSummary THEN base
    ELSE [min |-> base.min,
          max |-> Max(base.max, addition.max),
          count |-> base.count + addition.count,
          totalDuration |-> base.totalDuration + addition.totalDuration]

\* mergeDurationSummaries(base, addition); NullSummary is the absent operand
mergeDurationSummaries(base, addition) ==
    IF base = NullSummary THEN addition
    ELSE IF addition = NullSummary THEN base
    ELSE [min |-> Min(base.min, addition.min),
          max |-> Max(base.max, addition.max),
          count |-> base.count + addition.count,
          totalDuration |-> base.totalDuration + addition.totalDuration]

\* createDurationSummary(durationMs)
createDurationSummary(durationMs) ==
    [min |-> durationMs, max |-> durationMs, count |-> 1,
     totalDuration |-> durationMs]

\* UpdateSummary without `summary.min = Math.min(summary.min, durationMs)`
UpdateSummaryKeepMin(summary, durationMs) ==
    [min |-> summary.min,
     max |-> Max(summary.max, durationMs),
     count |-> summary.count + 1,
     totalDuration |-> summary.totalDuration + durationMs]

\* the update of an existing summary in updateSessionDurationMetrics and
\* updateRouteDurationMetrics
UpdateSummary(summary, durationMs) ==
    [min |-> Min(summary.min, durationMs),
     max |-> Max(summary.max, durationMs),
     count |-> summary.count + 1,
     totalDuration |-> summary.totalDuration + durationMs]

\* Math.round(q * 100) / 100 of the quotient whole + rest / den, as whole
\* milliseconds plus hundredths (Math.round rounds halves up)
RoundedTo2(whole, hundredths) ==
    IF hundredths = 100 THEN [ms |-> whole + 1, hundredths |-> 0]
    ELSE [ms |-> whole, hundredths |-> hundredths]

\* Math.round((totalDuration / count) * 100) / 100 for count # 0
RoundedAverage(totalDuration, count) ==
    RoundedTo2(Quotient(totalDuration, count).num \div Quotient(totalDuration, count).den,
               RoundHalfUp((Quotient(totalDuration, count).num
                               % Quotient(totalDuration, count).den) * 100,
                           Quotient(totalDuration, count).den))

\* buildDurationSummaryResponse(summary) of a stored summary
buildDurationSummaryResponse(summary) ==
    [min |-> summary.min, max |-> summary.max, count |-> summary.count,
     totalDuration |-> summary.totalDuration,
     average |-> IF summary.count # 0
                 THEN RoundedAverage(summary.totalDuration, summary.count)
                 ELSE [ms |-> 0, hundredths |-> 0]]

-----------------------------------------------------------------------------
(* Stats normalizer                                                        *)

\* the routes an Object.entries(routes) loop keeps: a positive count and a
\* route that sanitizes to a key
KeptCounts(rawRoutes) ==
    {r \in DOMAIN rawRoutes :
        /\ NumberOrZero(rawRoutes[r]) > 0
        /\ sanitizeRoute(JsString(r)) # <<>>}

\* acc[sanitizedRoute] = (acc[sanitizedRoute] || 0) + visits over kept
SumCounts(rawRoutes, kept) ==
    [k \in {sanitizeRoute(JsString(r)) : r \in kept} |->
        SumAt([r \in kept |-> NumberOrZero(rawRoutes[r])],
              {r \in kept : sanitizeRoute(JsString(r)) = k})]

\* the loop over Object.entries(routes) of normalizeStats and
\* normalizeDailyStats: counts of raw keys that sanitize to one key are added
NormalizeRouteCounts(rawRoutes) == SumCounts(rawRoutes, KeptCounts(rawRoutes))

\* normalizeDailyStats(rawDaily)
normalizeDailyStats(rawDaily) ==
    IF ~rawDaily.isObject THEN EmptyMap
    ELSE [dateKey \in {d \in DOMAIN rawDaily.entries :
                          /\ isValidDateKey(d)
                          /\ rawDaily.entries[d].isObject
                          /\ KeptCounts(rawDaily.entries[d].entries) # {}} |->
             NormalizeRouteCounts(rawDaily.entries[dateKey].entries)]

\* normalizeSessionDurationMap(rawSessions)
normalizeSessionDurationMap(rawSessions) ==
    IF ~rawSessions.isObject THEN EmptyMap
    ELSE [dateKey \in {d \in DOMAIN rawSessions.entries :
                          /\ isValidDateKey(d)
                          /\ normalizeDurationSummary(rawSessions.entries[d])
                                 # NullSummary} |->
             normalizeDurationSummary(rawSessions.entries[dateKey])]

\* mergeDurationSummaries folded over the summaries of m at ks
RECURSIVE MergeAt(_, _)
MergeAt(m, ks) ==
    IF ks = {} THEN NullSummary
    ELSE mergeDurationSummaries(MergeAt(m, ks \ {CHOOSE x \in ks : TRUE}),
                                m[CHOOSE x \in ks : TRUE])

\* the routes the inner loop of normalizeRouteDurationMap keeps
KeptSummaries(rawRoutes) ==
    {r \in DOMAIN rawRoutes :
        /\ sanitizeRoute(JsString(r)) # <<>>
        /\ normalizeDurationSummary(rawRoutes[r]) # NullSummary}

\* acc[sanitizedRoute] = mergeDurationSummaries(acc[sanitizedRoute], summary)
MergeSummaries(rawRoutes, kept) ==
    [k \in {sanitizeRoute(JsString(r)) : r \in kept} |->
        MergeAt([r \in kept |-> normalizeDurationSummary(rawRoutes[r])],
                {r \in kept : sanitizeRoute(JsString(r)) = k})]

\* the inner loop of normalizeRouteDurationMap over one day's routes
NormalizeRouteSummaries(rawRoutes) ==
    MergeSummaries(rawRoutes, KeptSummaries(rawRoutes))

\* normalizeRouteDurationMap(rawRoutes)
normalizeRouteDurationMap(rawRoutes) ==
    IF ~rawRoutes.isObject THEN EmptyMap
    ELSE [dateKey \in {d \in DOMAIN rawRoutes.entries :
                          /\ isValidDateKey(d)
                          /\ rawRoutes.entries[d].isObject
                          /\ KeptSummaries(rawRoutes.entries[d].entries) # {}} |->
             NormalizeRouteSummaries(rawRoutes.entries[dateKey].entries)]

\* a JSON value where a site's stats are expected
NotStats ==
    [isObject |-> FALSE, sites |-> NotAnObject, total |-> JUndefined,
     count |-> JUndefined, routes |-> NotAnObject, daily |-> NotAnObject,
     sessionDurations |-> NotAnObject, routeDurations |-> NotAnObject]

\* sanitizeRoute(LEGACY_ROUTE_NAME) || LEGACY_ROUTE_NAME
LegacyRoute ==
    IF sanitizeRoute(JsString(LEGACY_ROUTE_NAME)) # <<>>
    THEN sanitizeRoute(JsString(LEGACY_ROUTE_NAME))
    ELSE LEGACY_ROUTE_NAME

\* normalizeStats: the legacy branch, the daily history and the summaries
StatsOfTotal(raw, normalizedRoutes, total, legacy) ==
    [total |-> IF legacy THEN NumberOrZero(raw.count) ELSE total,
     routes |-> IF legacy
                THEN Put(EmptyMap, LegacyRoute, NumberOrZero(raw.count))
                ELSE normalizedRoutes,
     daily |-> normalizeDailyStats(raw.daily),
     sessionDurations |-> normalizeSessionDurationMap(raw.sessionDurations),
     routeDurations |-> normalizeRouteDurationMap(raw.routeDurations)]

\* a variant whose legacy branch lacks the typeof test: a count held as a
\* numeric string migrates too
StatsOfRoutesAnyCount(raw, normalizedRoutes, totalFromRoutes) ==
    StatsOfTotal(raw, normalizedRoutes,
                 IF Number(raw.total).nan \/ Number(raw.total).num < totalFromRoutes
                 THEN totalFromRoutes ELSE Number(raw.total).num,
                 /\ DOMAIN normalizedRoutes = {}
                 /\ NumberOrZero(raw.count) > 0)

\* normalizeStats from `const totalFromRoutes` on: the total is at least the
\* sum of the route counts
StatsOfRoutes(raw, normalizedRoutes, totalFromRoutes) ==
    StatsOfTotal(raw, normalizedRoutes,
                 IF Number(raw.total).nan \/ Number(raw.total).num < totalFromRoutes
                 THEN totalFromRoutes ELSE Number(raw.total).num,
                 /\ DOMAIN normalizedRoutes = {}
                 /\ raw.count.type = "number"
                 /\ NumberOrZero(raw.count) > 0)

\* normalizeStats from `const normalizedRoutes` on
StatsOfObject(raw, normalizedRoutes) ==
    StatsOfRoutes(raw, normalizedRoutes, SumValues(normalizedRoutes))

\* normalizeStats(raw)
normalizeStats(raw) ==
    IF ~raw.isObject THEN createEmptyStats
    ELSE StatsOfObject(raw, IF raw.routes.isObject
                            THEN NormalizeRouteCounts(raw.routes.entries)
                            ELSE EmptyMap)

-----------------------------------------------------------------------------
(* History pruner                                                          *)

\* pruneDateMap(store, cutoffTimestamp)
pruneDateMap(store, cutoffTimestamp) ==
    Without(store, {dateKey \in DOMAIN store :
                       \/ ~getTimestampForDateKey(dateKey).finite
                       \/ getTimestampForDateKey(dateKey).t < cutoffTimestamp})

\* pruneDailyStats from `const cutoffTimestamp` on
PruneBefore(stats, cutoffTimestamp) ==
    [stats EXCEPT
        !.daily = pruneDateMap(stats.daily, cutoffTimestamp),
        !.sessionDurations = pruneDateMap(stats.sessionDurations, cutoffTimestamp),
        !.routeDurations = pruneDateMap(stats.routeDurations, cutoffTimestamp)]

\* CutoffOf without the `- 1`
CutoffOfWholeWindow(todayTimestamp) ==
    todayTimestamp - MAX_DAILY_HISTORY_DAYS * DAY_IN_MS

\* todayTimestamp - (MAX_DAILY_HISTORY_DAYS - 1) * DAY_IN_MS
CutoffOf(todayTimestamp) ==
    todayTimestamp - (MAX_DAILY_HISTORY_DAYS - 1) * DAY_IN_MS

\* the visits of a daily history, and those of one route
DailySum(daily) ==
    SumAt([d \in DOMAIN daily |-> SumValues(daily[d])], DOMAIN daily)
DailyRouteSum(daily, route) ==
    SumAt([d \in DOMAIN daily |-> GetOr(daily[d], route, 0)], DOMAIN daily)

\* a variant that recounts the total from the history it retains
PruneRecounting(stats, referenceDate) ==
    IF ~getTimestampForDateKey(getTodayKey(referenceDate)).finite THEN stats
    ELSE [PruneBefore(stats,
                      CutoffOf(getTimestampForDateKey(getTodayKey(referenceDate)).t))
             EXCEPT !.total =
                 DailySum(pruneDateMap(stats.daily,
                     CutoffOf(getTimestampForDateKey(getTodayKey(referenceDate)).t)))]

\* pruneDailyStats(stats, referenceDate)
pruneDailyStats(stats, referenceDate) ==
    IF ~getTimestampForDateKey(getTodayKey(referenceDate)).finite THEN stats
    ELSE PruneBefore(stats,
                     CutoffOf(getTimestampForDateKey(getTodayKey(referenceDate)).t))

-----------------------------------------------------------------------------
(* Mutators of a site's stats                                              *)

\* incrementDailyCount(stats, route, dateKey)
incrementDailyCount(stats, route, dateKey) ==
    [stats EXCEPT
        !.daily = Put(stats.daily, dateKey,
                      Put(GetOr(stats.daily, dateKey, EmptyMap), route,
                          GetOr(GetOr(stats.daily, dateKey, EmptyMap), route, 0) + 1))]

\* updateSessionDurationMetrics(stats, durationMs, dateKey)
updateSessionDurationMetrics(stats, durationMs, dateKey) ==
    [stats EXCEPT
        !.sessionDurations =
            Put(stats.sessionDurations, dateKey,
                IF Has(stats.sessionDurations, dateKey)
                THEN UpdateSummary(stats.sessionDurations[dateKey], durationMs)
                ELSE createDurationSummary(durationMs))]

\* stats.routeDurations[dateKey][route]: updated, or created
RouteSummaryAfter(day, route, durationMs) ==
    Put(day, route, IF Has(day, route)
                    THEN UpdateSummary(day[route], durationMs)
                    ELSE createDurationSummary(durationMs))

\* updateRouteDurationMetrics(stats, route, durationMs, dateKey)
updateRouteDurationMetrics(stats, route, durationMs, dateKey) ==
    [stats EXCEPT
        !.routeDurations =
            Put(stats.routeDurations, dateKey,
                RouteSummaryAfter(GetOr(stats.routeDurations, dateKey, EmptyMap),
                                  route, durationMs))]

\* CountVisit without `stats.total += 1`
CountVisitNoTotal(stats, sanitizedRoute) ==
    [stats EXCEPT
        !.routes = Put(stats.routes, sanitizedRoute,
                       GetOr(stats.routes, sanitizedRoute, 0) + 1)]

\* CountVisit with `stats.routes[sanitizedRoute] = 1` for the increment
CountVisitOverwrite(stats, sanitizedRoute) ==
    [stats EXCEPT
        !.routes = Put(stats.routes, sanitizedRoute, 1),
        !.total = stats.total + 1]

\* stats.routes[sanitizedRoute] = (stats.routes[sanitizedRoute] || 0) + 1;
\* stats.total += 1
CountVisit(stats, sanitizedRoute) ==
    [stats EXCEPT
        !.routes = Put(stats.routes, sanitizedRoute,
                       GetOr(stats.routes, sanitizedRoute, 0) + 1),
        !.total = stats.total + 1]

\* the mutation of POST /api/visits: routes, total, today's daily count, prune
RecordVisitOn(stats, sanitizedRoute, clock) ==
    pruneDailyStats(
        incrementDailyCount(CountVisit(stats, sanitizedRoute), sanitizedRoute,
                            getTodayKey(clock)),
        clock)

-----------------------------------------------------------------------------
(* Multi-site store, its persisted form, and the range query               *)

\* the entries of raw.sites, in the document's order: <<name, stats>> pairs
JSites(entries) == [isObject |-> TRUE, entries |-> entries]
NoSites == [isObject |-> FALSE, entries |-> <<>>]

\* the entries of raw.sites whose name resolves to a site
KeptSites(entries) ==
    {i \in 1..Len(entries) : resolveSiteKey(JsString(entries[i][1])) # NoKey}

\* the last kept entry of raw.sites that resolves to site
LastOf(entries, site) ==
    CHOOSE i \in KeptSites(entries) :
        /\ resolveSiteKey(JsString(entries[i][1])) = site
        /\ \A j \in KeptSites(entries) :
               resolveSiteKey(JsString(entries[j][1])) = site => j <= i

\* the loop of normalizeSitesStore: a later entry of raw.sites replaces an
\* earlier one that resolves to the same site
NormalizeSiteEntries(entries) ==
    [site \in {resolveSiteKey(JsString(entries[i][1])) : i \in KeptSites(entries)} |->
        normalizeStats(entries[LastOf(entries, site)][2])]

\* normalizeSitesStore(raw)
normalizeSitesStore(raw) ==
    IF raw.isObject /\ raw.sites.isObject
    THEN IF KeptSites(raw.sites.entries) = {}
         THEN Put(EmptyMap, DEFAULT_SITE, createEmptyStats)
         ELSE NormalizeSiteEntries(raw.sites.entries)
    ELSE Put(EmptyMap, DEFAULT_SITE, normalizeStats(raw))

\* JSON.parse(JSON.stringify(summary)) of a stored summary
JsonOfSummary(summary) ==
    JSummary(JNum(summary.count), JNum(summary.totalDuration),
             JNum(summary.min), JNum(summary.max))

JsonOfCounts(counts) == JObject([k \in DOMAIN counts |-> JNum(counts[k])])

\* JSON.parse(JSON.stringify(stats)) of a site's stats
JsonOfStats(stats) ==
    [isObject |-> TRUE, sites |-> NoSites, total |-> JNum(stats.total),
     count |-> JUndefined,
     routes |-> JsonOfCounts(stats.routes),
     daily |-> JObject([d \in DOMAIN stats.daily |-> JsonOfCounts(stats.daily[d])]),
     sessionDurations |->
         JObject([d \in DOMAIN stats.sessionDurations |->
                     JsonOfSummary(stats.sessionDurations[d])]),
     routeDurations |->
         JObject([d \in DOMAIN stats.routeDurations |->
                     JObject([k \in DOMAIN stats.routeDurations[d] |->
                                 JsonOfSummary(stats.routeDurations[d][k])])])]

\* the elements of a set, as a sequence
RECURSIVE SeqOf(_)
SeqOf(S) ==
    IF S = {} THEN <<>>
    ELSE <<CHOOSE y \in S : TRUE>> \o SeqOf(S \ {CHOOSE y \in S : TRUE})

\* the sites of the payload, in the order names
JsonOfSites(store, names) ==
    JSites([i \in 1..Len(names) |-> <<names[i], JsonOfStats(store[names[i]])>>])

\* the payload of persistCount, as JSON.parse reads it back:
\* { version: 2, sites: visitStatsBySite }
JsonOfStore(store) ==
    [NotStats EXCEPT !.isObject = TRUE,
                     !.sites = JsonOfSites(store, SeqOf(DOMAIN store))]

\* the content of DATA_FILE: no file, text that is no JSON, or a document
NoFile == [state |-> "missing", doc |-> NotStats]
CorruptFile == [state |-> "corrupt", doc |-> NotStats]
JsonFile(doc) == [state |-> "json", doc |-> doc]

\* the entries of daily that collectDailyVisits keeps
InRange(stats, startTimestamp) ==
    {dateKey \in DOMAIN stats.daily :
        /\ getTimestampForDateKey(dateKey).finite
        /\ getTimestampForDateKey(dateKey).t >= startTimestamp}

\* the earliest of the date keys
Earliest(keys) ==
    CHOOSE k \in keys :
        \A j \in keys : getTimestampForDateKey(k).t <= getTimestampForDateKey(j).t

\* .sort((a, b) => a.timestamp - b.timestamp) of the kept date keys
RECURSIVE SortByTimestamp(_)
SortByTimestamp(keys) ==
    IF keys = {} THEN <<>>
    ELSE <<Earliest(keys)>> \o SortByTimestamp(keys \ {Earliest(keys)})

\* .map(({ dateKey }) => ({ date, routes, total })) of the sorted date keys
DailyEntries(stats, sorted) ==
    [i \in 1..Len(sorted) |->
        [date |-> sorted[i],
         routes |-> stats.daily[sorted[i]],
         total |-> SumValues(stats.daily[sorted[i]])]]

\* todayTimestamp - (days - 1) * DAY_IN_MS
StartOf(todayTimestamp, days) == todayTimestamp - (days - 1) * DAY_IN_MS

\* collectDailyVisits(stats, rangeKey) at the instant clock, for a range key
\* of RANGE_PRESETS
collectDailyVisits(stats, rangeKey, clock) ==
    IF \/ ~getTimestampForDateKey(getTodayKey(clock)).finite
       \/ DOMAIN stats.daily = {}
    THEN <<>>
    ELSE DailyEntries(stats,
             SortByTimestamp(InRange(stats,
                 StartOf(getTimestampForDateKey(getTodayKey(clock)).t,
                         RANGE_PRESETS[rangeKey]))))

-----------------------------------------------------------------------------
(* The server: bootstrap, clock, request handlers                          *)

Sites == {LOSANDES, ENDOMEDICOS}

\* 2025-03-01T04:00Z, which is 2025-02-28 23:00 in Colombia
StartInstant == DaysFromCivil(2025, 3, 1) * DAY_IN_MS + (4 * 60 * 60 * 1000) \div TimeUnitMs

NoDate == <<0, 0, 0>>

NoResponse ==
    [kind |-> "none", status |-> 0, site |-> NoKey,
     stats |-> createEmptyStats, scope |-> <<>>, date |-> NoDate,
     route |-> <<>>, summary |-> buildDurationSummaryResponse(NullSummary),
     range |-> NoKey, days |-> <<>>]

\* res.status(400).json({ message })
BadRequest(kind) ==
    [NoResponse EXCEPT !.kind = kind, !.status = 400]

\* the durations recorded for one site's session summary of one day, as a
\* map from duration to the number of times it was recorded; clean when the
\* day had no summary before the first of them
NoSessions == [day |-> NoDate, clean |-> FALSE, ds |-> EmptyMap]

\* what has happened so far: requests accepted, advances of the clock, the
\* sites without data after the load, whether the store was just loaded, the
\* sites written since the clock last advanced, the visits accepted per site
\* and route as sent, the session durations accepted per site
HistInit ==
    [ops |-> 0, ticks |-> 0, emptyAtBoot |-> {},
     loadedNow |-> FALSE, wroteNow |-> {},
     visits |-> [site \in Sites |-> EmptyMap],
     sess |-> [site \in Sites |-> NoSessions]]

\* let visitStatsBySite = { [DEFAULT_SITE]: createEmptyStats() }
InitialStore == Put(EmptyMap, DEFAULT_SITE, createEmptyStats)

\* ensureDataFile(): a missing file is created with the empty stats
EnsureDataFile(file) ==
    IF file.state = "missing"
    THEN JsonFile(JsonOfStats(createEmptyStats)) ELSE file

\* Object.values(visitStatsBySite).forEach((stats) => pruneDailyStats(stats))
PruneEverySite(store, clock) ==
    [site \in DOMAIN store |-> pruneDailyStats(store[site], clock)]

\* the store loadCount() leaves: the file's, normalized and pruned, or the
\* empty one when the file could not be parsed
Loaded(file, clock) ==
    IF file.state = "corrupt" THEN InitialStore
    ELSE PruneEverySite(normalizeSitesStore(file.doc), clock)

\* loadCount()
LoadCount ==
    /\ pc = "boot"
    /\ disk' = EnsureDataFile(disk)
    /\ visitStatsBySite' = Loaded(EnsureDataFile(disk), now)
    /\ hist' = [hist EXCEPT
                   !.loadedNow = TRUE,
                   !.emptyAtBoot =
                       {site \in Sites :
                           GetOr(visitStatsBySite', site, createEmptyStats)
                               = createEmptyStats}]
    /\ pc' = "serving"
    /\ res' = NoResponse
    /\ UNCHANGED <<now, pending, arg, out>>

\* time passes
Tick(jump) ==
    /\ pc = "serving"
    /\ now' = now + jump
    /\ hist' = [hist EXCEPT !.ticks = @ + 1, !.loadedNow = FALSE, !.wroteNow = {}]
    /\ res' = NoResponse
    /\ UNCHANGED <<pc, disk, visitStatsBySite, pending, arg, out>>

\* a request suspended at `await persistCount()`: the payload it writes and
\* what its response needs
Suspended(kind, site, payload, scope, date, route, summary) ==
    [kind |-> kind, site |-> site, payload |-> payload, scope |-> scope,
     date |-> date, route |-> route, summary |-> summary]

\* return res.status(400).json(...), with the store as the handler left it
Reject(store, kind) ==
    /\ visitStatsBySite' = store
    /\ res' = BadRequest(kind)
    /\ UNCHANGED <<pending, hist>>

\* a variant that prunes the history of every site, as loadCount does
PostVisitsAtPruningAll(siteKey, sanitizedRoute, route) ==
    IF siteKey = NoKey THEN Reject(visitStatsBySite, "visits")
    ELSE IF sanitizedRoute = <<>>
    THEN Reject(getSiteStats(visitStatsBySite, siteKey), "visits")
    ELSE /\ visitStatsBySite' =
                PruneEverySite(
                    [getSiteStats(visitStatsBySite, siteKey) EXCEPT
                        ![siteKey] = RecordVisitOn(@, sanitizedRoute, now)],
                    now)
         /\ pending' = pending \cup
                {Suspended("visits", siteKey, JsonOfStore(visitStatsBySite'),
                           <<>>, NoDate, sanitizedRoute, NullSummary)}
         /\ hist' = [hist EXCEPT
                        !.wroteNow = @ \cup {siteKey},
                        !.ops = @ + 1,
                        !.visits[siteKey] = Put(@, route, GetOr(@, route, 0) + 1)]
         /\ res' = NoResponse

\* app.post('/api/visits') for a resolved site and a sanitized route, up to
\* `await persistCount()`; route is the route as the client sent it
PostVisitsAt(siteKey, sanitizedRoute, route) ==
    IF siteKey = NoKey THEN Reject(visitStatsBySite, "visits")
    ELSE IF sanitizedRoute = <<>>
    THEN Reject(getSiteStats(visitStatsBySite, siteKey), "visits")
    ELSE /\ visitStatsBySite' =
                [getSiteStats(visitStatsBySite, siteKey) EXCEPT
                    ![siteKey] = RecordVisitOn(@, sanitizedRoute, now)]
         /\ pending' = pending \cup
                {Suspended("visits", siteKey, JsonOfStore(visitStatsBySite'),
                           <<>>, NoDate, sanitizedRoute, NullSummary)}
         /\ hist' = [hist EXCEPT
                        !.wroteNow = @ \cup {siteKey},
                        !.ops = @ + 1,
                        !.visits[siteKey] = Put(@, route, GetOr(@, route, 0) + 1)]
         /\ res' = NoResponse

\* app.post('/api/visits')
PostVisits(rawSite, rawRoute) ==
    /\ pc = "serving"
    /\ PostVisitsAt(resolveSiteKey(rawSite), sanitizeRoute(rawRoute), rawRoute.chars)
    /\ UNCHANGED <<now, pc, disk, arg, out>>

SESSION == <<"s", "e", "s", "s", "i", "o", "n">>
ROUTE == <<"r", "o", "u", "t", "e">>

\* the summary updateRouteDurationMetrics or updateSessionDurationMetrics
\* returns
SummaryAt(stats, scopeRaw, dateKey, sanitizedRoute) ==
    IF scopeRaw = ROUTE THEN stats.routeDurations[dateKey][sanitizedRoute]
    ELSE stats.sessionDurations[dateKey]

\* a suspended request holds a reference to the summary object it updated: a
\* later request that updates the same object changes what it will respond
Aliased(requests, siteKey, scopeRaw, dateKey, route, summary) ==
    {IF /\ p.kind = "durations" /\ p.site = siteKey /\ p.scope = scopeRaw
        /\ p.date = dateKey /\ p.route = route
     THEN [p EXCEPT !.summary = summary] ELSE p : p \in requests}

\* the session durations accepted for a site, after one more
SessAfter(before, hadSummary, dateKey, durationMs) ==
    IF ~hadSummary
    THEN [day |-> dateKey, clean |-> TRUE, ds |-> Put(EmptyMap, durationMs, 1)]
    ELSE IF before.day = dateKey
    THEN [before EXCEPT !.ds = Put(@, durationMs, GetOr(@, durationMs, 0) + 1)]
    ELSE [day |-> dateKey, clean |-> FALSE, ds |-> Put(EmptyMap, durationMs, 1)]

\* app.post('/api/visits/durations') from the update of the summary to
\* `await persistCount()`; route is the route of the response, if any
AcceptDuration(siteKey, scopeRaw, durationMs, route, dateKey) ==
    /\ visitStatsBySite' =
           [getSiteStats(visitStatsBySite, siteKey) EXCEPT
               ![siteKey] =
                   IF scopeRaw = ROUTE
                   THEN updateRouteDurationMetrics(pruneDailyStats(@, now), route,
                                                   durationMs, dateKey)
                   ELSE updateSessionDurationMetrics(pruneDailyStats(@, now),
                                                     durationMs, dateKey)]
    /\ pending' =
           Aliased(pending, siteKey, scopeRaw, dateKey, route,
                   SummaryAt(visitStatsBySite'[siteKey], scopeRaw, dateKey, route))
           \cup {Suspended("durations", siteKey, JsonOfStore(visitStatsBySite'),
                           scopeRaw, dateKey, route,
                           SummaryAt(visitStatsBySite'[siteKey], scopeRaw,
                                     dateKey, route))}
    /\ hist' = [hist EXCEPT
                   !.wroteNow = @ \cup {siteKey},
                   !.ops = @ + 1,
                   !.sess[siteKey] =
                       IF scopeRaw # SESSION THEN @
                       ELSE SessAfter(@,
                                Has(GetOr(visitStatsBySite, siteKey,
                                          createEmptyStats).sessionDurations,
                                    dateKey),
                                dateKey, durationMs)]
    /\ res' = NoResponse

\* app.post('/api/visits/durations') for a resolved site, a normalized scope,
\* a sanitized duration and a sanitized route, up to `await persistCount()`
PostDurationsAt(siteKey, scopeRaw, durationMs, sanitizedRoute) ==
    IF siteKey = NoKey THEN Reject(visitStatsBySite, "durations")
    ELSE IF scopeRaw \notin {SESSION, ROUTE} \/ durationMs \in {Null, 0}
    THEN Reject(getSiteStats(visitStatsBySite, siteKey), "durations")
    ELSE IF scopeRaw = ROUTE /\ sanitizedRoute = <<>>
    THEN Reject([getSiteStats(visitStatsBySite, siteKey) EXCEPT
                    ![siteKey] = pruneDailyStats(@, now)], "durations")
    ELSE AcceptDuration(siteKey, scopeRaw, durationMs,
                        IF scopeRaw = ROUTE THEN sanitizedRoute ELSE <<>>,
                        getTodayKey(now))

\* app.post('/api/visits/durations')
PostDurations(rawSite, rawScope, rawDuration, rawRoute) ==
    /\ pc = "serving"
    /\ PostDurationsAt(resolveSiteKey(rawSite),
                       IF rawScope.isString
                       THEN toLowerCase(trim(rawScope.chars)) ELSE <<>>,
                       sanitizeDurationValue(rawDuration),
                       sanitizeRoute(rawRoute))
    /\ UNCHANGED <<now, pc, disk, arg, out>>

\* a variant that reports a failed save to the client
PersistDoneReporting(p, ok) ==
    /\ p \in pending
    /\ pending' = pending \ {p}
    /\ disk' = IF ok THEN JsonFile(p.payload) ELSE disk
    /\ res' = IF ~ok
              THEN [NoResponse EXCEPT !.kind = p.kind, !.status = 500]
              ELSE IF p.kind = "visits"
              THEN [NoResponse EXCEPT
                       !.kind = "visits", !.status = 200,
                       !.site = p.site, !.stats = visitStatsBySite[p.site]]
              ELSE [NoResponse EXCEPT
                       !.kind = "durations", !.status = 200,
                       !.site = p.site, !.scope = p.scope, !.date = p.date,
                       !.route = p.route,
                       !.summary = buildDurationSummaryResponse(p.summary)]
    /\ UNCHANGED <<now, pc, visitStatsBySite, hist, arg, out>>

\* persistCount() of a suspended request completes (the file is written when
\* ok, the error is logged and swallowed otherwise) and the handler responds
PersistDone(p, ok) ==
    /\ p \in pending
    /\ pending' = pending \ {p}
    /\ disk' = IF ok THEN JsonFile(p.payload) ELSE disk
    /\ res' = IF p.kind = "visits"
              THEN [NoResponse EXCEPT
                       !.kind = "visits", !.status = 200,
                       !.site = p.site, !.stats = visitStatsBySite[p.site]]
              ELSE [NoResponse EXCEPT
                       !.kind = "durations", !.status = 200,
                       !.site = p.site, !.scope = p.scope, !.date = p.date,
                       !.route = p.route,
                       !.summary = buildDurationSummaryResponse(p.summary)]
    /\ UNCHANGED <<now, pc, visitStatsBySite, hist, arg, out>>

\* app.get('/api/visits') for a resolved site
GetVisitsAt(siteKey) ==
    IF siteKey = NoKey
    THEN /\ res' = BadRequest("stats")
         /\ UNCHANGED visitStatsBySite
    ELSE /\ visitStatsBySite' = getSiteStats(visitStatsBySite, siteKey)
         /\ res' = [NoResponse EXCEPT
                       !.kind = "stats", !.status = 200, !.site = siteKey,
                       !.stats = visitStatsBySite'[siteKey]]

\* app.get('/api/visits')
GetVisits(rawSite) ==
    /\ pc = "serving"
    /\ GetVisitsAt(resolveSiteKey(rawSite))
    /\ UNCHANGED <<now, pc, disk, pending, hist, arg, out>>

\* app.get('/api/visits/daily') for a resolved site and a resolved range
GetDailyAt(siteKey, rangeKey) ==
    IF siteKey = NoKey
    THEN /\ res' = BadRequest("daily")
         /\ UNCHANGED visitStatsBySite
    ELSE /\ visitStatsBySite' = getSiteStats(visitStatsBySite, siteKey)
         /\ res' = IF rangeKey = NoKey THEN BadRequest("daily")
                   ELSE [NoResponse EXCEPT
                            !.kind = "daily", !.status = 200,
                            !.site = siteKey, !.range = rangeKey,
                            !.days = collectDailyVisits(visitStatsBySite'[siteKey],
                                                        rangeKey, now)]

\* app.get('/api/visits/daily')
GetDaily(rawSite, rawRange) ==
    /\ pc = "serving"
    /\ GetDailyAt(resolveSiteKey(rawSite), resolveRangeKey(rawRange))
    /\ UNCHANGED <<now, pc, disk, pending, hist, arg, out>>

-----------------------------------------------------------------------------
(* Inputs: the requests clients send and the files the server may find     *)

HOME == <<"h", "o", "m", "e">>

\* site: absent, an alias of endomedicos, no site
SiteInputs ==
    {NotAString,
     JsString(<<" ", "E", "n", "d", "o", "-", "M", "e", "d", "i", "c", "o", "s">>),
     JsString(<<"b", "o", "g", "o", "t", "a">>)}

\* route: "/Home/", "a /", "?a" (no path)
RouteInputs ==
    {JsString(<<"/", "H", "o", "m", "e", "/">>),
     JsString(<<"a", " ", "/">>),
     JsString(<<"?", "a">>)}

\* routes that share a key, and one more
SharedRouteInputs ==
    {JsString(<<"/", "H", "o", "m", "e", "/">>), JsString(HOME),
     JsString(<<"a", " ", "/">>)}

\* a body of POST /api/visits/durations
DurationBody(site, scope, durationMs, route) ==
    [site |-> site, scope |-> scope, durationMs |-> durationMs, route |-> route]

\* bodies of POST /api/visits/durations: a session, a route with a duration
\* above the cap, a route scope without a route, an unknown scope, no
\* duration, an unknown site
DurationBodies ==
    {DurationBody(NotAString, JsString(<<" ", "S", "e", "s", "s", "i", "o", "n", " ">>),
                  Rat(299996, 10), NotAString),
     DurationBody(JsString(<<"E", "n", "d", "o", "_", "M", "e", "d", "i", "c", "o", "s">>), JsString(ROUTE),
                  Rat(864000005, 10), JsString(<<"/", "H", "o", "m", "e", "/">>)),
     DurationBody(JsString(<<"E", "n", "d", "o", "_", "M", "e", "d", "i", "c", "o", "s">>), JsString(ROUTE),
                  Rat(299996, 10), JsString(<<"?", "a">>)),
     DurationBody(NotAString, JsString(<<"p", "a", "g", "e">>),
                  Rat(299996, 10), NotAString),
     DurationBody(NotAString, JsString(SESSION), NaN, NotAString),
     DurationBody(JsString(<<"b", "o", "g", "o", "t", "a">>), JsString(SESSION),
                  Rat(299996, 10), NotAString)}

\* bodies of POST /api/visits/durations: sessions of 29999.6 ms, of 90000.4 ms
\* and of 0.5 ms, a session of another site, a route, no duration
SessionBodies ==
    {DurationBody(NotAString, JsString(<<" ", "S", "e", "s", "s", "i", "o", "n", " ">>),
                  Rat(299996, 10), NotAString),
     DurationBody(NotAString, JsString(SESSION), Rat(900004, 10), NotAString),
     DurationBody(NotAString, JsString(SESSION), Rat(5, 10), NotAString),
     DurationBody(JsString(<<"E", "n", "d", "o", "_", "M", "e", "d", "i", "c", "o", "s">>), JsString(SESSION),
                  Rat(299996, 10), NotAString),
     DurationBody(NotAString, JsString(ROUTE), Rat(900004, 10),
                  JsString(<<"/", "H", "o", "m", "e", "/">>)),
     DurationBody(NotAString, JsString(SESSION), NaN, NotAString)}

RangeInputs ==
    {JsString(<<"S", "E", "M", "A", "N", "A">>),
     JsString(<<"A", "n", "u", "a", "l">>),
     JsString(<<" ", "w", "e", "e", "k">>)}

\* advances of the clock between requests: one hour, 366 days
TickJumps == {(60 * 60 * 1000) \div TimeUnitMs, 366 * DAY_IN_MS}

\* date keys around the day the server starts (2025-02-28 in Colombia): that
\* day, 365 and 366 days before it, two days after it, and two that are no dates
Today0 == <<2025, 2, 28>>
Boundary0 == <<2024, 2, 29>>
Expired0 == <<2024, 2, 28>>
Future0 == <<2025, 3, 2>>
BadMonth == <<2025, 13, 1>>
BadShape == <<20250, 1, 1>>

RAW_HOME == <<"/", "H", "o", "m", "e", "/">>
RAW_A == <<"a", " ", "/">>
RAW_QUERY == <<"?">>

RawStats(total, count, routes, daily, sessionDurations, routeDurations) ==
    [isObject |-> TRUE, sites |-> NoSites, total |-> total, count |-> count,
     routes |-> routes, daily |-> daily,
     sessionDurations |-> sessionDurations, routeDurations |-> routeDurations]

\* a site's stats with routes that collide after sanitization, a total above
\* the route counts, and history on both sides of the retention window
StatsHistory ==
    RawStats(
        JNum(9), JUndefined,
        JObject((RAW_HOME :> JNum(2)) @@ (HOME :> JNumStr(1)) @@ (RAW_A :> JNum(1))
                @@ (RAW_QUERY :> JNum(3)) @@ (<<"b">> :> JNum(0))),
        JObject((Expired0 :> JObject(HOME :> JNum(1)))
                @@ (Boundary0 :> JObject(HOME :> JNum(2)))
                @@ (Today0 :> JObject((RAW_HOME :> JNum(1)) @@ (HOME :> JNum(1))))
                @@ (Future0 :> JObject(HOME :> JNum(1)))
                @@ (BadMonth :> JObject(HOME :> JNum(1)))
                @@ (BadShape :> JObject(HOME :> JNum(1)))
                @@ (<<2025, 2, 27>> :> JObject(RAW_QUERY :> JNum(1)))),
        JObject((Expired0 :> JSummary(JNum(2), JNum(120000), JNum(30000), JNum(90000)))
                @@ (Boundary0 :> JSummary(JNum(2), JNum(120000), JNum(30000), JNum(90000)))
                @@ (Today0 :> JSummary(JNum(3), JNum(10), JUndefined, JUndefined))
                @@ (Future0 :> JSummary(JNum(0), JNum(10), JNum(5), JNum(5)))
                @@ (BadMonth :> NotASummary)),
        JObject((Today0 :> JObject((RAW_HOME :> JSummary(JNum(1), JNum(500), JNum(500), JNum(500)))
                                   @@ (HOME :> JSummary(JNum(2), JNum(3000), JNum(1000), JNum(2000)))))
                @@ (Boundary0 :> JObject(RAW_QUERY :> JSummary(JNum(1), JNum(5), JNum(5), JNum(5))))))

\* a site's stats as a damaged file may hold them
StatsDamaged ==
    RawStats(
        JText, JNumStr(5),
        JObject((HOME :> JNum(0 - 1)) @@ (RAW_A :> JText)),
        NotAnObject,
        JObject((Today0 :> JSummary(JNum(0 - 2), JNum(100), JNum(10), JNum(20)))
                @@ (Boundary0 :> JSummary(JNum(2), JNum(0), JNum(10), JNum(20)))),
        JObject(Today0 :> JObject(HOME :> JSummary(JNum(2), JNum(10), JNum(20), JNum(5)))))

\* the earliest schema: one counter
StatsLegacy ==
    RawStats(JNum(9), JNum(5), NotAnObject, NotAnObject, NotAnObject, NotAnObject)

Files ==
    {NoFile,
     CorruptFile,
     JsonFile(StatsLegacy),
     JsonFile(StatsHistory),
     JsonFile([NotStats EXCEPT
                  !.isObject = TRUE,
                  !.sites = JSites(<<
                      <<<<"l", "o", "s", "-", "a", "n", "d", "e", "s">>, StatsHistory>>,
                      <<<<"A", "N", "D", "E", "S">>, StatsDamaged>>,
                      <<<<"e", "n", "d", "o", "m", "e", "d", "i", "c", "o", "s">>, StatsHistory>>,
                      <<<<"b", "o", "g", "o", "t", "a">>, StatsLegacy>> >>)]),
     JsonFile([NotStats EXCEPT
                  !.isObject = TRUE,
                  !.sites = JSites(<< <<<<"b", "o", "g", "o", "t", "a">>, StatsHistory>> >>)])}

-----------------------------------------------------------------------------
(* Spec: the server from its start on any of Files, under POST requests    *)
(* that arrive one at a time, while time passes.                           *)

Init ==
    /\ now = StartInstant
    /\ pc = "boot"
    /\ disk \in Files
    /\ visitStatsBySite = InitialStore
    /\ pending = {}
    /\ res = NoResponse
    /\ hist = HistInit
    /\ arg = <<>>
    /\ out = <<>>

Next ==
    \/ LoadCount
    \/ \E jump \in TickJumps : hist.ops + hist.ticks < MaxSteps /\ Tick(jump)
    \/ \E rawSite \in SiteInputs, rawRoute \in RouteInputs :
           /\ hist.ops + hist.ticks < MaxSteps /\ pending = {}
           /\ PostVisits(rawSite, rawRoute)
    \/ \E body \in DurationBodies :
           /\ hist.ops + hist.ticks < MaxSteps /\ pending = {}
           /\ PostDurations(body.site, body.scope, body.durationMs, body.route)
    \/ \E p \in pending, ok \in BOOLEAN : PersistDone(p, ok)

Spec == Init /\ [][Next]_vars

-----------------------------------------------------------------------------
(* SpecQuery: the server from its start on any of Files, under GET         *)
(* requests and one visit, while time passes.                              *)

NextQuery ==
    \/ LoadCount
    \/ \E jump \in TickJumps : hist.ops + hist.ticks < MaxSteps /\ Tick(jump)
    \/ /\ hist.ops < 1 /\ pending = {}
       /\ PostVisits(NotAString, JsString(HOME))
    \/ \E p \in pending : PersistDone(p, TRUE)
    \/ \E rawSite \in SiteInputs : pending = {} /\ GetVisits(rawSite)
    \/ \E rawSite \in SiteInputs, rawRange \in RangeInputs :
           pending = {} /\ GetDaily(rawSite, rawRange)

SpecQuery == Init /\ [][NextQuery]_vars

-----------------------------------------------------------------------------
(* SpecVisits: the server from its start without data, under visits of     *)
(* which up to MaxInflight are in flight at once.                          *)

InitEmpty ==
    /\ now = StartInstant
    /\ pc = "boot"
    /\ disk \in {NoFile, CorruptFile}
    /\ visitStatsBySite = InitialStore
    /\ pending = {}
    /\ res = NoResponse
    /\ hist = HistInit
    /\ arg = <<>>
    /\ out = <<>>

NextVisits ==
    \/ LoadCount
    \/ \E rawSite \in SiteInputs, rawRoute \in SharedRouteInputs :
           /\ hist.ops + hist.ticks < MaxSteps /\ Cardinality(pending) < MaxInflight
           /\ PostVisits(rawSite, rawRoute)
    \/ \E p \in pending, ok \in BOOLEAN : PersistDone(p, ok)

SpecVisits == InitEmpty /\ [][NextVisits]_vars

-----------------------------------------------------------------------------
(* SpecDurations: the server from its start without data, under durations  *)
(* of which up to MaxInflight are in flight at once, while hours pass.     *)

NextDurations ==
    \/ LoadCount
    \/ hist.ops + hist.ticks < MaxSteps /\ Tick((60 * 60 * 1000) \div TimeUnitMs)
    \/ \E body \in SessionBodies :
           /\ hist.ops + hist.ticks < MaxSteps /\ Cardinality(pending) < MaxInflight
           /\ PostDurations(body.site, body.scope, body.durationMs, body.route)
    \/ \E p \in pending, ok \in BOOLEAN : PersistDone(p, ok)

SpecDurations == InitEmpty /\ [][NextDurations]_vars

-----------------------------------------------------------------------------
(* SpecSanitize: sanitizeRoute applied to every string over RouteChars of  *)
(* length at most MaxLen, and applied again to its own result.             *)

RouteChars == {"a", "B", "/", " ", "?", "#"}

StringsUpTo(n) == UNION {[1..k -> RouteChars] : k \in 0..n}

Idle ==
    /\ now = 0 /\ pc = "pure" /\ disk = <<>> /\ visitStatsBySite = <<>>
    /\ pending = {} /\ res = <<>> /\ hist = <<>>

InitSanitize ==
    /\ Idle
    /\ arg \in StringsUpTo(MaxLen)
    /\ out = [step |-> 0, once |-> <<>>, twice |-> <<>>]

SanitizeOnce ==
    /\ out.step = 0
    /\ out' = [out EXCEPT !.step = 1, !.once = sanitizeRoute(JsString(arg))]
    /\ UNCHANGED <<now, pc, disk, visitStatsBySite, pending, res, hist, arg>>

SanitizeTwice ==
    /\ out.step = 1
    /\ out' = [out EXCEPT !.step = 2, !.twice = sanitizeRoute(JsString(out.once))]
    /\ UNCHANGED <<now, pc, disk, visitStatsBySite, pending, res, hist, arg>>

NextSanitize == SanitizeOnce \/ SanitizeTwice

SpecSanitize == InitSanitize /\ [][NextSanitize]_vars

-----------------------------------------------------------------------------
(* SpecPrune: pruneDailyStats applied to stats with history on any of      *)
(* PruneDays, at any of PruneClocks.                                       *)

\* 2024-02-30 is a key Date.parse reads as 2024-03-01
PruneDays == {Today0, Boundary0, Expired0, <<2024, 3, 1>>, <<2024, 2, 30>>, Future0}

\* 23:00 of 2025-02-28 and 00:00 of 2025-03-01 in Colombia
PruneClocks == {StartInstant, StartInstant + (60 * 60 * 1000) \div TimeUnitMs}

StatsOn(dailyKeys, durationKeys) ==
    [total |-> Cardinality(dailyKeys) + 1,
     routes |-> HOME :> Cardinality(dailyKeys),
     daily |-> [d \in dailyKeys |-> HOME :> 1],
     sessionDurations |-> [d \in durationKeys |-> createDurationSummary(1000)],
     routeDurations |-> [d \in dailyKeys |-> HOME :> createDurationSummary(d[3])]]

InitPrune ==
    /\ Idle
    /\ arg \in [daily : SUBSET PruneDays, durations : SUBSET PruneDays,
                clock : PruneClocks]
    /\ out = [done |-> FALSE, stats |-> createEmptyStats]

Prune ==
    /\ ~out.done
    /\ out' = [done |-> TRUE,
               stats |-> pruneDailyStats(StatsOn(arg.daily, arg.durations), arg.clock)]
    /\ UNCHANGED <<now, pc, disk, visitStatsBySite, pending, res, hist, arg>>

NextPrune == Prune

SpecPrune == InitPrune /\ [][NextPrune]_vars

-----------------------------------------------------------------------------
(* The claims                                                              *)

\* the number of the day a date key names, and of the day in Colombia at clock
DayNumber(dateKey) == DaysFromCivil(dateKey[1], dateKey[2], dateKey[3])
TodayNumber(clock) == (clock + COLOMBIA_UTC_OFFSET_MS) \div DAY_IN_MS

\* C1: for every site, the total is at least the sum of the per-route visit
\* counters.
TotalCoversRoutes ==
    \A site \in DOMAIN visitStatsBySite :
        visitStatsBySite[site].total >= SumValues(visitStatsBySite[site].routes)

\* a site loaded with a total above its route counters has taken a visit
TotalAboveRoutesAfterVisit ==
    /\ hist.visits[LOSANDES] # EmptyMap
    /\ Has(visitStatsBySite, LOSANDES)
    /\ visitStatsBySite[LOSANDES].total > SumValues(visitStatsBySite[LOSANDES].routes)

\* the routes as sent whose sanitized form is key
SentAs(sent, key) == {r \in DOMAIN sent : sanitizeRoute(JsString(r)) = key}

\* the per-route counters that the visits sent make
CountersOf(sent) ==
    [key \in {sanitizeRoute(JsString(r)) : r \in DOMAIN sent} |->
        SumAt(sent, SentAs(sent, key))]

AverageRounded(response) ==
    /\ response.average.hundredths \in 0..99
    /\ 2 * ((response.average.ms * 100 + response.average.hundredths) * response.count
                - response.totalDuration * 100) <= response.count
    /\ 2 * (response.totalDuration * 100
                - (response.average.ms * 100 + response.average.hundredths)
                      * response.count) <= response.count

\* sum of d * ds[d] over the durations ks
RECURSIVE TotalOf(_, _)
TotalOf(ds, ks) ==
    IF ks = {} THEN 0
    ELSE (CHOOSE d \in ks : TRUE) * ds[CHOOSE d \in ks : TRUE]
             + TotalOf(ds, ks \ {CHOOSE d \in ks : TRUE})

\* summary is the summary of the durations ds
Summarizes(summary, ds) ==
    /\ \A d \in DOMAIN ds : summary.min <= d /\ d <= summary.max
    /\ summary.min \in DOMAIN ds /\ summary.max \in DOMAIN ds
    /\ summary.count = SumValues(ds)
    /\ summary.totalDuration = TotalOf(ds, DOMAIN ds)
    /\ AverageRounded(buildDurationSummaryResponse(summary))

\* C3: after session durations d1..dk were recorded for a site on one day,
\* the day's summary has their minimum, their maximum, count k, their sum as
\* total, and in a response the average total / count rounded to two decimals.
SessionSummaryExact ==
    /\ \A site \in Sites :
           hist.sess[site].clean =>
               /\ Has(visitStatsBySite[site].sessionDurations, hist.sess[site].day)
               /\ Summarizes(visitStatsBySite[site].sessionDurations[hist.sess[site].day],
                             hist.sess[site].ds)
    /\ res.kind = "durations" /\ res.status = 200 => AverageRounded(res.summary)

\* sessions of 90000 ms and 30000 ms were recorded and the response says
\* min 30000, max 90000, count 2, total 120000, average 60000
SessionExample ==
    /\ hist.sess[LOSANDES].clean
    /\ hist.sess[LOSANDES].ds = (30000 :> 1) @@ (90000 :> 1)
    /\ res.kind = "durations" /\ res.scope = SESSION /\ res.site = LOSANDES
    /\ res.summary = [min |-> 30000, max |-> 90000, count |-> 2,
                      totalDuration |-> 120000,
                      average |-> [ms |-> 60000, hundredths |-> 0]]

\* C4: route sanitization is idempotent: sanitizing an already sanitized
\* route gives the same route.
SanitizeIdempotent == out.step = 2 => out.twice = out.once

\* the route keys a site's stats hold
RouteKeysOf(stats) ==
    DOMAIN stats.routes
    \cup UNION {DOMAIN stats.daily[d] : d \in DOMAIN stats.daily}
    \cup UNION {DOMAIN stats.routeDurations[d] : d \in DOMAIN stats.routeDurations}

\* C5: every stored route key is canonical: sanitizing it gives it back.
RouteKeysCanonical ==
    \A site \in DOMAIN visitStatsBySite :
        \A key \in RouteKeysOf(visitStatsBySite[site]) :
            sanitizeRoute(JsString(key)) = key

\* C6: a store reached from the empty one by requests is what normalizing
\* its serialized form gives.
RoundTrip ==
    pc = "serving" =>
        normalizeSitesStore(JsonOfStore(visitStatsBySite)) = visitStatsBySite

\* the date keys of exactly the last 366 days up to the day of clock
Retained(keys, clock) ==
    {d \in keys : DayNumber(d) >= TodayNumber(clock) - 365}

\* C7: pruning removes the entries dated before today minus 365 days, and
\* only those: an entry of today minus 365 days stays, one of today minus 366
\* days goes, and what stays is unchanged.
PruneExact ==
    out.done =>
        /\ DOMAIN out.stats.daily = Retained(arg.daily, arg.clock)
        /\ DOMAIN out.stats.routeDurations = Retained(arg.daily, arg.clock)
        /\ DOMAIN out.stats.sessionDurations = Retained(arg.durations, arg.clock)
        /\ \A d \in DOMAIN out.stats.daily :
               /\ out.stats.daily[d] = StatsOn(arg.daily, arg.durations).daily[d]
               /\ out.stats.routeDurations[d]
                      = StatsOn(arg.daily, arg.durations).routeDurations[d]
        /\ \A d \in DOMAIN out.stats.sessionDurations :
               out.stats.sessionDurations[d]
                   = StatsOn(arg.daily, arg.durations).sessionDurations[d]
        /\ out.stats.total = StatsOn(arg.daily, arg.durations).total
        /\ out.stats.routes = StatsOn(arg.daily, arg.durations).routes

\* on 2025-02-28 the entry of 2024-02-29 (365 days old) stayed and the entry
\* of 2024-02-28 (366 days old) went
PruneBoundary ==
    /\ out.done
    /\ arg.clock = StartInstant
    /\ {Boundary0, Expired0} \subseteq arg.daily
    /\ Boundary0 \in DOMAIN out.stats.daily
    /\ Expired0 \notin DOMAIN out.stats.daily

\* the date keys a site's stats hold
DateKeysOf(stats) ==
    DOMAIN stats.daily \cup DOMAIN stats.sessionDurations
    \cup DOMAIN stats.routeDurations

\* C8: after every load and every write, every date key of every site lies
\* between today minus 365 days and today.
HistoryWithinWindow ==
    pc = "serving" /\ (hist.loadedNow \/ hist.wroteNow # {}) =>
        \A site \in DOMAIN visitStatsBySite :
            \A d \in DateKeysOf(visitStatsBySite[site]) :
                /\ TodayNumber(now) - 365 <= DayNumber(d)
                /\ DayNumber(d) <= TodayNumber(now)

\* the dates of the entries a range query returned
DatesOf(days) == {days[i].date : i \in 1..Len(days)}

\* the first day of a range of RANGE_PRESETS that ends on the day of clock
RangeStart(rangeKey, clock) == TodayNumber(clock) - (RANGE_PRESETS[rangeKey] - 1)

\* C9: a range query returns only entries dated from the start of the range
\* to today, and every stored entry dated so.
RangeExact ==
    res.kind = "daily" /\ res.status = 200 =>
        /\ \A d \in DatesOf(res.days) :
               /\ RangeStart(res.range, now) <= DayNumber(d)
               /\ DayNumber(d) <= TodayNumber(now)
        /\ \A d \in DOMAIN visitStatsBySite[res.site].daily :
               RangeStart(res.range, now) <= DayNumber(d)
                   /\ DayNumber(d) <= TodayNumber(now)
               => d \in DatesOf(res.days)

\* the duration summaries a site's stats hold
SummariesOf(stats) ==
    {stats.sessionDurations[d] : d \in DOMAIN stats.sessionDurations}
    \cup UNION {{stats.routeDurations[d][k] : k \in DOMAIN stats.routeDurations[d]} :
                   d \in DOMAIN stats.routeDurations}

\* C10: every stored duration summary has count >= 1, total > 0, min <= max
\* and min * count <= total <= max * count.
SummariesWellFormed ==
    \A site \in DOMAIN visitStatsBySite :
        \A summary \in SummariesOf(visitStatsBySite[site]) :
            /\ summary.count >= 1
            /\ summary.totalDuration > 0
            /\ summary.min <= summary.max
            /\ summary.min * summary.count <= summary.totalDuration
            /\ summary.totalDuration <= summary.max * summary.count

-----------------------------------------------------------------------------
(* SpecSummary: normalizeDurationSummary applied to the raw summaries a    *)
(* document can hold.                                                      *)

CountInputs == {JUndefined, JNum(0 - 2), JNum(0), JNum(1), JNum(3), JNumStr(2)}
TotalInputs == {JUndefined, JNum(0 - 5), JNum(0), JNum(10), JNum(100)}
BoundInputs == {JUndefined, JNum(0), JNum(10), JNum(20)}

RawSummaries ==
    {NotASummary}
    \cup {JSummary(count, totalDuration, min, max) :
             count \in CountInputs, totalDuration \in TotalInputs,
             min \in BoundInputs, max \in BoundInputs}

InitSummary ==
    /\ Idle
    /\ arg \in RawSummaries
    /\ out = [done |-> FALSE, summary |-> NullSummary]

NormalizeSummary ==
    /\ ~out.done
    /\ out' = [done |-> TRUE, summary |-> normalizeDurationSummary(arg)]
    /\ UNCHANGED <<now, pc, disk, visitStatsBySite, pending, res, hist, arg>>

NextSummary == NormalizeSummary

SpecSummary == InitSummary /\ [][NextSummary]_vars

\* C11: normalization rejects every raw duration summary whose count is zero
\* or negative, and every one whose totalDuration is zero or negative.
NonPositiveRejected ==
    out.done /\ (NumberOrZero(arg.count) <= 0 \/ NumberOrZero(arg.totalDuration) <= 0)
        => out.summary = NullSummary

-----------------------------------------------------------------------------
(* SpecNormalize: normalizeStats applied to the stats a document can hold. *)

RawTotals == {JUndefined, JText, JNum(0), JNum(3), JNum(9), JNumStr(7)}
RawCounts == {JUndefined, JNum(0 - 1), JNum(0), JNum(5), JNumStr(5)}
RawRoutes ==
    {NotAnObject,
     JObject(EmptyMap),
     JObject(HOME :> JNum(2)),
     JObject(HOME :> JNum(0)),
     JObject(RAW_QUERY :> JNum(3)),
     JObject((RAW_HOME :> JNum(2)) @@ (HOME :> JNumStr(1)) @@ (RAW_QUERY :> JNum(3)))}

RawBlobs ==
    {NotStats}
    \cup {RawStats(total, count, routes, NotAnObject, NotAnObject, NotAnObject) :
             total \in RawTotals, count \in RawCounts, routes \in RawRoutes}

InitNormalize ==
    /\ Idle
    /\ arg \in RawBlobs
    /\ out = [done |-> FALSE, stats |-> createEmptyStats]

NormalizeBlob ==
    /\ ~out.done
    /\ out' = [done |-> TRUE, stats |-> normalizeStats(arg)]
    /\ UNCHANGED <<now, pc, disk, visitStatsBySite, pending, res, hist, arg>>

NextNormalize == NormalizeBlob

SpecNormalize == InitNormalize /\ [][NextNormalize]_vars

\* the raw routes of a blob that survive normalization: a positive count
\* under a name that sanitizes to a key
SurvivingRoutes(raw) ==
    IF raw.isObject /\ raw.routes.isObject
    THEN {r \in DOMAIN raw.routes.entries :
             /\ NumberOrZero(raw.routes.entries[r]) > 0
             /\ sanitizeRoute(JsString(r)) # <<>>}
    ELSE {}

\* no route survives and the count field is a positive number
IsLegacyBlob(raw) ==
    /\ raw.isObject
    /\ SurvivingRoutes(raw) = {}
    /\ raw.count.type = "number"
    /\ raw.count.n > 0

\* C12: a blob in which no route survives and whose count is a positive
\* number n normalizes to routes {general: n} and total n; in every other
\* blob the routes are the surviving ones and no legacy route appears.
LegacyMigration ==
    out.done =>
        IF IsLegacyBlob(arg)
        THEN /\ out.stats.routes = (LEGACY_ROUTE_NAME :> arg.count.n)
             /\ out.stats.total = arg.count.n
        ELSE /\ DOMAIN out.stats.routes
                  = {sanitizeRoute(JsString(r)) : r \in SurvivingRoutes(arg)}
             /\ LEGACY_ROUTE_NAME \notin DOMAIN out.stats.routes

\* the spec's example {count: 5}, also next to a total or an empty routes object
LegacyExample ==
    /\ out.done
    /\ arg.isObject
    /\ arg.total = JUndefined
    /\ arg.count = JNum(5)
    /\ ~arg.routes.isObject
    /\ out.stats.routes = (LEGACY_ROUTE_NAME :> 5)
    /\ out.stats.total = 5

\* C13: for a blob whose total is a finite number, the normalized total is
\* the larger of that total and the sum of the normalized route counts.
TotalClampedUp ==
    out.done /\ arg.isObject /\ arg.total.type = "number"
        => out.stats.total
             = Max(Number(arg.total).num, SumValues(out.stats.routes))

-----------------------------------------------------------------------------
(* SpecMerge: mergeDurationSummaries applied to three stored summaries.    *)
(* The fields are integers, as in every summary the server builds from     *)
(* reported durations.                                                     *)

MergeInputs ==
    {createDurationSummary(10),
     createDurationSummary(20),
     createDurationSummary(MAX_TRACKABLE_DURATION_MS),
     [min |-> 5, max |-> 30, count |-> 2, totalDuration |-> 35],
     [min |-> 20, max |-> 20, count |-> 3, totalDuration |-> 60]}

InitMerge ==
    /\ Idle
    /\ arg \in MergeInputs \X MergeInputs \X MergeInputs
    /\ out = [done |-> FALSE, ab |-> NullSummary, ba |-> NullSummary,
              left |-> NullSummary, right |-> NullSummary]

MergeThree ==
    /\ ~out.done
    /\ out' = [done |-> TRUE,
               ab |-> mergeDurationSummaries(arg[1], arg[2]),
               ba |-> mergeDurationSummaries(arg[2], arg[1]),
               left |-> mergeDurationSummaries(
                            mergeDurationSummaries(arg[1], arg[2]), arg[3]),
               right |-> mergeDurationSummaries(
                             arg[1], mergeDurationSummaries(arg[2], arg[3]))]
    /\ UNCHANGED <<now, pc, disk, visitStatsBySite, pending, res, hist, arg>>

NextMerge == MergeThree

SpecMerge == InitMerge /\ [][NextMerge]_vars

\* C14: merging summaries with positive counts is commutative and
\* associative; the result has the least min, the greatest max, and the
\* sums of the counts and of the total durations.
MergeCommutativeAssociative ==
    out.done =>
        /\ out.ab = out.ba
        /\ out.left = out.right
        /\ out.ab = [min |-> Min(arg[1].min, arg[2].min),
                     max |-> Max(arg[1].max, arg[2].max),
                     count |-> arg[1].count + arg[2].count,
                     totalDuration |-> arg[1].totalDuration + arg[2].totalDuration]
        /\ out.left = [min |-> Min(arg[1].min, Min(arg[2].min, arg[3].min)),
                       max |-> Max(arg[1].max, Max(arg[2].max, arg[3].max)),
                       count |-> arg[1].count + arg[2].count + arg[3].count,
                       totalDuration |-> arg[1].totalDuration + arg[2].totalDuration
                                         + arg[3].totalDuration]

\* three different summaries, the least min in the last and the greatest
\* max in the second
MergeExample ==
    /\ out.done
    /\ arg[3].min < arg[1].min
    /\ arg[1].min < arg[2].min
    /\ arg[2].max > arg[3].max
    /\ arg[3].max > arg[1].max
    /\ out.left.count = 4
    /\ out.left.min = arg[3].min
    /\ out.left.max = arg[2].max

-----------------------------------------------------------------------------
(* SpecSequential: the server from its start without data, under visits    *)
(* and durations that arrive one at a time, each save failing or not.      *)

NextSequential ==
    \/ LoadCount
    \/ \E rawSite \in SiteInputs, rawRoute \in RouteInputs :
           /\ hist.ops + hist.ticks < MaxSteps /\ pending = {}
           /\ PostVisits(rawSite, rawRoute)
    \/ \E body \in SessionBodies :
           /\ hist.ops + hist.ticks < MaxSteps /\ pending = {}
           /\ PostDurations(body.site, body.scope, body.durationMs, body.route)
    \/ \E p \in pending, ok \in BOOLEAN : PersistDone(p, ok)

SpecSequential == InitEmpty /\ [][NextSequential]_vars


\* C15: when the save of a request ends, failed or not, the request answers
\* with its normal success result, the store keeps the mutation, no save is
\* started again, and the file is either left as it was or holds the full
\* current store.
PersistFailureSwallowed ==
    [][\A p \in pending :
          pending' = pending \ {p} =>
              /\ res'.status = 200
              /\ res'.kind = p.kind
              /\ res'.site = p.site
              /\ p.kind = "visits" => res'.stats = visitStatsBySite[p.site]
              /\ visitStatsBySite' = visitStatsBySite
              /\ hist'.ops = hist.ops
              /\ disk' \in {disk, JsonFile(JsonOfStore(visitStatsBySite))}]_vars

\* a visit was answered with 200 although its save failed: the file lacks it
FailedSaveAnswered ==
    /\ pending = {}
    /\ hist.ops = 1
    /\ res.status = 200
    /\ res.kind = "visits"
    /\ res.stats.total >= 1
    /\ disk # JsonFile(JsonOfStore(visitStatsBySite))
    /\ visitStatsBySite[res.site] = res.stats

\* C16: while the save of a write request is outstanding, no other request
\* changes the store.
NoMutationWhileSaving ==
    [][pending # {} => visitStatsBySite' = visitStatsBySite]_vars

-----------------------------------------------------------------------------
(* SpecWriteThrough: the server from its start without data, under visits  *)
(* that are all accepted, of which up to MaxInflight are in flight at      *)
(* once, when no save fails.                                               *)

WriteSites ==
    {NotAString,
     JsString(<<" ", "E", "n", "d", "o", "-", "M", "e", "d", "i", "c", "o", "s">>)}

WriteRoutes == {JsString(<<"/", "H", "o", "m", "e", "/">>), JsString(HOME)}

NextWriteThrough ==
    \/ LoadCount
    \/ \E rawSite \in WriteSites, rawRoute \in WriteRoutes :
           /\ hist.ops + hist.ticks < MaxSteps /\ Cardinality(pending) < MaxInflight
           /\ PostVisits(rawSite, rawRoute)
    \/ \E p \in pending : PersistDone(p, TRUE)

SpecWriteThrough == InitEmpty /\ [][NextWriteThrough]_vars

\* C17: when no save fails, once every outstanding save has completed the
\* file holds the store, whatever the interleaving of the requests.
WriteThrough ==
    pc = "serving" /\ pending = {} /\ hist.ops >= 1
        => disk = JsonFile(JsonOfStore(visitStatsBySite))

-----------------------------------------------------------------------------
(* SpecCollect: collectDailyVisits applied to a daily history whose days   *)
(* were stored in any order, for every range, at any of PruneClocks.       *)

\* .sort((a, b) => a.timestamp - b.timestamp) is stable: entries with equal
\* timestamps stay in storage order
RECURSIVE InsertByTimestamp(_, _)
InsertByTimestamp(sorted, dateKey) ==
    IF sorted = <<>> THEN <<dateKey>>
    ELSE IF getTimestampForDateKey(dateKey).t
                < getTimestampForDateKey(sorted[Len(sorted)]).t
    THEN InsertByTimestamp(SubSeq(sorted, 1, Len(sorted) - 1), dateKey)
             \o <<sorted[Len(sorted)]>>
    ELSE sorted \o <<dateKey>>

RECURSIVE SortInOrder(_)
SortInOrder(order) ==
    IF order = <<>> THEN <<>>
    ELSE InsertByTimestamp(SortInOrder(SubSeq(order, 1, Len(order) - 1)),
                           order[Len(order)])

\* .filter(...) over Object.entries(stats.daily), which lists the date keys
\* in storage order
RECURSIVE KeptInOrder(_, _)
KeptInOrder(order, startTimestamp) ==
    IF order = <<>> THEN <<>>
    ELSE IF /\ getTimestampForDateKey(order[1]).finite
            /\ getTimestampForDateKey(order[1]).t >= startTimestamp
    THEN <<order[1]>> \o KeptInOrder(Tail(order), startTimestamp)
    ELSE KeptInOrder(Tail(order), startTimestamp)

\* collectDailyVisits(stats, rangeKey) at the instant clock, when the keys of
\* stats.daily were stored in the order given
collectDailyVisitsInOrder(order, stats, rangeKey, clock) ==
    IF \/ ~getTimestampForDateKey(getTodayKey(clock)).finite
       \/ order = <<>>
    THEN <<>>
    ELSE DailyEntries(stats,
             SortInOrder(KeptInOrder(order,
                 StartOf(getTimestampForDateKey(getTodayKey(clock)).t,
                         RANGE_PRESETS[rangeKey]))))

\* today, six days and seven days before it, 364 days before it under two
\* keys (Date.parse reads 2024-02-30 as 2024-03-01), and 365 days before it
CollectDays ==
    {Today0, <<2025, 2, 22>>, <<2025, 2, 21>>, <<2024, 3, 1>>, <<2024, 2, 30>>}

DistinctSeqs(S) ==
    {s \in UNION {[1..n -> S] : n \in 0..Cardinality(S)} :
        \A i, j \in DOMAIN s : i # j => s[i] # s[j]}

SeqRange(s) == {s[i] : i \in DOMAIN s}

\* a site's stats whose daily history holds the days of order
DailyOn(order) ==
    [createEmptyStats EXCEPT
        !.daily = [d \in SeqRange(order) |-> (HOME :> 1) @@ (<<"a">> :> d[3])]]

InitCollect ==
    /\ Idle
    /\ arg \in [order : DistinctSeqs(CollectDays), range : {WEEK, D30, YEAR},
                clock : PruneClocks]
    /\ out = [done |-> FALSE, days |-> <<>>]

CollectDaily ==
    /\ ~out.done
    /\ out' = [done |-> TRUE,
               days |-> collectDailyVisitsInOrder(arg.order, DailyOn(arg.order),
                                                  arg.range, arg.clock)]
    /\ UNCHANGED <<now, pc, disk, visitStatsBySite, pending, res, hist, arg>>

NextCollect == CollectDaily

SpecCollect == InitCollect /\ [][NextCollect]_vars

\* the order of date keys as strings YYYY-MM-DD
DateBefore(a, b) ==
    \/ a[1] < b[1]
    \/ a[1] = b[1] /\ a[2] < b[2]
    \/ a[1] = b[1] /\ a[2] = b[2] /\ a[3] < b[3]

\* C18: a range query returns its entries in strictly ascending date order
\* whatever the storage order, one per stored day and none for other days,
\* each with that day's routes and with the sum of that day's counts.
DailyAscending ==
    out.done =>
        /\ \A i \in 1..(Len(out.days) - 1) :
               DateBefore(out.days[i].date, out.days[i + 1].date)
        /\ \A i \in 1..Len(out.days) :
               /\ out.days[i].date \in SeqRange(arg.order)
               /\ out.days[i].routes = DailyOn(arg.order).daily[out.days[i].date]
               /\ out.days[i].total
                      = SumValues(DailyOn(arg.order).daily[out.days[i].date])

-----------------------------------------------------------------------------
(* SpecCalendar: getTodayKey and getTimestampForDateKey at every hour of    *)
(* three days around the end of February of a leap year, the end of a      *)
(* year, the start instant, and the epoch (instants are whole hours, the    *)
(* unit of the model's clock).                                             *)

HourMs == (60 * 60 * 1000) \div TimeUnitMs

CalendarStarts ==
    {DaysFromCivil(2024, 2, 28), DaysFromCivil(2024, 12, 31),
     DaysFromCivil(2025, 2, 28), DaysFromCivil(1969, 12, 31)}

Instants ==
    {day * DAY_IN_MS + hour * HourMs : day \in CalendarStarts, hour \in 0..71}

InitCalendar ==
    /\ Idle
    /\ arg \in Instants
    /\ out = [done |-> FALSE, key |-> NoDate, before |-> NoDate,
              start |-> NaNTime, nextStart |-> NaNTime]

ReadCalendar ==
    /\ ~out.done
    /\ out' = [done |-> TRUE,
               key |-> getTodayKey(arg),
               before |-> getTodayKey(arg - HourMs),
               start |-> getTimestampForDateKey(getTodayKey(arg)),
               nextStart |-> getTimestampForDateKey(getTodayKey(arg + DAY_IN_MS))]
    /\ UNCHANGED <<now, pc, disk, visitStatsBySite, pending, res, hist, arg>>

NextCalendar == ReadCalendar

SpecCalendar == InitCalendar /\ [][NextCalendar]_vars

\* the days of month m of year y
DaysInMonth(y, m) ==
    IF m = 2
    THEN (IF y % 4 = 0 /\ (y % 100 # 0 \/ y % 400 = 0) THEN 29 ELSE 28)
    ELSE IF m \in {4, 6, 9, 11} THEN 30 ELSE 31

\* C19: the day key of an instant is the calendar date of that instant at
\* UTC-5; the timestamp of the key is the start of that day, at most the
\* instant and less than 24 h before it; the next day's key has a timestamp
\* 24 h later; the key changes exactly at 05:00 UTC.
DayKeyConsistent ==
    out.done =>
        /\ out.key[2] \in 1..12
        /\ out.key[3] \in 1..DaysInMonth(out.key[1], out.key[2])
        /\ DayNumber(out.key) = TodayNumber(arg)
        /\ out.start.finite
        /\ out.start.t <= arg
        /\ arg < out.start.t + DAY_IN_MS
        /\ out.nextStart.finite
        /\ out.nextStart.t = out.start.t + DAY_IN_MS
        /\ (out.before # out.key) <=> (arg % DAY_IN_MS = 5 * HourMs)

\* 05:00 UTC of 2024-02-29: the key has just become the leap day
LeapDayBegins ==
    /\ out.done
    /\ out.key = <<2024, 2, 29>>
    /\ out.before = <<2024, 2, 28>>
    /\ out.start.t = arg

-----------------------------------------------------------------------------
(* Rejected requests                                                       *)

\* C20: a write request answered with a validation error leaves every
\* site's stats as they were (a site without stats counts as one with empty
\* stats) and starts no save.
RejectedLeavesStats ==
    [][res'.status = 400 /\ res'.kind \in {"visits", "durations"} =>
          /\ \A site \in Sites :
                 GetOr(visitStatsBySite', site, createEmptyStats)
                     = GetOr(visitStatsBySite, site, createEmptyStats)
          /\ pending' = pending
          /\ disk' = disk]_vars

-----------------------------------------------------------------------------
(* SpecIsolation: the server from its start without a file or on a file    *)
(* that holds several sites, under visits and durations that arrive one at *)
(* a time, while time passes.                                              *)

InitIsolation ==
    /\ Init
    /\ disk \in {NoFile} \cup {f \in Files : f.state = "json" /\ f.doc.sites.isObject}

NextIsolation ==
    \/ LoadCount
    \/ \E jump \in TickJumps : hist.ops + hist.ticks < MaxSteps /\ Tick(jump)
    \/ \E rawSite \in SiteInputs, rawRoute \in RouteInputs :
           /\ hist.ops + hist.ticks < MaxSteps /\ pending = {}
           /\ PostVisits(rawSite, rawRoute)
    \/ \E body \in DurationBodies :
           /\ hist.ops + hist.ticks < MaxSteps /\ pending = {}
           /\ PostDurations(body.site, body.scope, body.durationMs, body.route)
    \/ \E p \in pending : PersistDone(p, TRUE)

SpecIsolation == InitIsolation /\ [][NextIsolation]_vars

\* the stats of site are the same in both stores, or missing from both
SameStats(before, after, site) ==
    /\ Has(after, site) = Has(before, site)
    /\ Has(before, site) => after[site] = before[site]

\* C21: a visit or a duration recorded for one site leaves the stats of
\* every other site as they were, history included; and no request changes
\* the stats of more than one site.
SiteIsolation ==
    [][pc = "serving" =>
          /\ \A p \in pending' \ pending :
                 \A site \in Sites \ {p.site} :
                     SameStats(visitStatsBySite, visitStatsBySite', site)
          /\ \E target \in Sites :
                 \A site \in Sites \ {target} :
                     SameStats(visitStatsBySite, visitStatsBySite', site)]_vars

\* a visit for losandes is in flight on a day when the history of
\* endomedicos holds a day that has left the retention window
OtherSiteKeepsHistory ==
    /\ \E p \in pending : p.site = LOSANDES /\ p.kind = "visits"
    /\ hist.ticks >= 1
    /\ Has(visitStatsBySite, ENDOMEDICOS)
    /\ \E d \in DOMAIN visitStatsBySite[ENDOMEDICOS].daily :
           DayNumber(d) < TodayNumber(now) - (MAX_DAILY_HISTORY_DAYS - 1)

-----------------------------------------------------------------------------
(* SpecHistory: the server from its start without data, under visits that  *)
(* arrive one at a time, while hours and years pass.                       *)

NextHistory ==
    \/ LoadCount
    \/ \E jump \in TickJumps : hist.ops + hist.ticks < MaxSteps /\ Tick(jump)
    \/ \E rawSite \in SiteInputs, rawRoute \in SharedRouteInputs :
           /\ hist.ops + hist.ticks < MaxSteps /\ pending = {}
           /\ PostVisits(rawSite, rawRoute)
    \/ \E p \in pending : PersistDone(p, TRUE)

SpecHistory == InitEmpty /\ [][NextHistory]_vars

\* the routes of a daily history
DailyRoutes(daily) == UNION {DOMAIN daily[d] : d \in DOMAIN daily}

\* the retained days of every site justify no more visits than its counters
DailyWithinCounters ==
    \A site \in DOMAIN visitStatsBySite :
        /\ \A r \in DailyRoutes(visitStatsBySite[site].daily) :
               DailyRouteSum(visitStatsBySite[site].daily, r)
                   <= GetOr(visitStatsBySite[site].routes, r, 0)
        /\ DailySum(visitStatsBySite[site].daily) <= visitStatsBySite[site].total

\* the visits a step accepts for a site, and those for one of its routes
AcceptedFor(before, after, site) ==
    Cardinality({p \in after \ before : p.site = site})
AcceptedAt(before, after, site, route) ==
    Cardinality({p \in after \ before : p.site = site /\ p.route = route})

\* no step takes a site, a route counter or a visit away: every counter
\* stays as it was, or is one higher for the visit the step accepts,
\* whatever the step prunes
CountersNeverDecrease ==
    \A site \in DOMAIN visitStatsBySite :
        /\ Has(visitStatsBySite', site)
        /\ visitStatsBySite'[site].total
               = visitStatsBySite[site].total + AcceptedFor(pending, pending', site)
        /\ \A r \in DOMAIN visitStatsBySite[site].routes :
               /\ Has(visitStatsBySite'[site].routes, r)
               /\ visitStatsBySite'[site].routes[r]
                      = visitStatsBySite[site].routes[r]
                        + AcceptedAt(pending, pending', site, r)

\* C22: from the empty state, under visits while time passes and old days
\* are pruned, the retained daily counts of a route sum to at most the
\* route's counter and all daily counts to at most the total; pruning never
\* decreases a route counter or the total.
HistoryWithinCounters ==
    []DailyWithinCounters /\ [][CountersNeverDecrease]_vars

\* a route visited twice whose first day has been pruned
PrunedDayStillCounted ==
    /\ Has(visitStatsBySite, LOSANDES)
    /\ GetOr(visitStatsBySite[LOSANDES].routes, HOME, 0) = 2
    /\ visitStatsBySite[LOSANDES].total = 2
    /\ DailyRouteSum(visitStatsBySite[LOSANDES].daily, HOME) = 1
    /\ Today0 \notin DOMAIN visitStatsBySite[LOSANDES].daily
    /\ hist.ticks >= 1

====
